---------------------------- MODULE Spec2Model ----------------------------
(***************************************************************************)
(* Model of the course recommender (src/app/recommender.py) and of its     *)
(* dataset provider (src/app/data_loader.py).                              *)
(*                                                                         *)
(* Conventions.                                                            *)
(*   - A Python str is a sequence of character codes (ASCII), so that      *)
(*     split("|"), strip(), lower() and the lexical order of course ids    *)
(*     are computed, not assumed.  Student ids, categories and delivery    *)
(*     modes are only ever compared for equality and are TLA+ strings.     *)
(*   - A Python float is an exact rational [n, d] in lowest terms with     *)
(*     d > 0.  Binary rounding error of IEEE doubles is not modelled.      *)
(*   - A score returned by round(x, 3) is an integer number of             *)
(*     thousandths.                                                        *)
(***************************************************************************)
EXTENDS Integers, Sequences, FiniteSets, TLC

VARIABLES
    enrollments,   \* enrollments.csv on disk: a sequence of rows
    cache,         \* lru_cache(maxsize=1) of get_dataset: <<>> or <<snapshot>>
    builds,        \* number of times _build_dataset has been entered
    pc,            \* position of the sequential caller
    call,          \* arguments of the call in progress / last returned
    ret,           \* locals and return value of the last returned call
    pinned,        \* an earlier returned call, remembered for comparison
    edits,         \* number of edits made to enrollments.csv
    tpc,           \* per-thread position inside get_dataset
    tsnap,         \* per-thread snapshot returned by get_dataset
    scores,        \* input of a direct _normalize call
    normalized     \* its output

vars == <<enrollments, cache, builds, pc, call, ret, pinned, edits,
          tpc, tsnap, scores, normalized>>

-----------------------------------------------------------------------------
(* Strings *)

\* str.strip() removes these characters (ASCII whitespace).
Whitespace == {9, 10, 11, 12, 13, 28, 29, 30, 31, 32}

\* The separator of list-valued fields, "|".
Bar == 124

\* str.lower() on one ASCII character.
LowerChar(c) == IF c >= 65 /\ c <= 90 THEN c + 32 ELSE c

Lower(s) == [i \in 1..Len(s) |-> LowerChar(s[i])]

RECURSIVE LStrip(_)
LStrip(s) ==
    IF s # <<>> /\ Head(s) \in Whitespace THEN LStrip(Tail(s)) ELSE s

RECURSIVE RStrip(_)
RStrip(s) ==
    IF s # <<>> /\ s[Len(s)] \in Whitespace
    THEN RStrip(SubSeq(s, 1, Len(s) - 1))
    ELSE s

Strip(s) == RStrip(LStrip(s))

\* value.split("|"): the sequence of segments between separators.
RECURSIVE SplitBar(_, _)
SplitBar(s, cur) ==
    IF s = <<>> THEN <<cur>>
    ELSE IF Head(s) = Bar THEN <<cur>> \o SplitBar(Tail(s), <<>>)
    ELSE SplitBar(Tail(s), Append(cur, Head(s)))

\* {item.strip() for item in value.split("|") if item.strip()}
_split_to_set(value) ==
    LET segs == SplitBar(value, <<>>)
    IN  {Strip(segs[i]) : i \in {j \in 1..Len(segs) : Strip(segs[j]) # <<>>}}

\* data_loader's copy: the same set, and set() for an empty value.
_split_tags(value) ==
    IF value = <<>> THEN {} ELSE _split_to_set(value)

\* Python's order on str: lexicographic by character code.
RECURSIVE LexLess(_, _)
LexLess(a, b) ==
    IF b = <<>> THEN FALSE
    ELSE IF a = <<>> THEN TRUE
    ELSE IF Head(a) # Head(b) THEN Head(a) < Head(b)
    ELSE LexLess(Tail(a), Tail(b))

\* sorted(S) for a set of strings.
RECURSIVE SortedStrings(_)
SortedStrings(S) ==
    IF S = {} THEN <<>>
    ELSE LET m == CHOOSE x \in S : \A y \in S \ {x} : LexLess(x, y)
         IN  <<m>> \o SortedStrings(S \ {m})

-----------------------------------------------------------------------------
(* Exact rationals standing for floats *)

Abs(x) == IF x < 0 THEN -x ELSE x

RECURSIVE GCD(_, _)
GCD(a, b) == IF b = 0 THEN a ELSE GCD(b, a % b)

Rat(n, d) ==
    LET g == GCD(Abs(n), d)
    IN  [n |-> n \div g, d |-> d \div g]

Zero == Rat(0, 1)
One == Rat(1, 1)

RAdd(a, b) == Rat(a.n * b.d + b.n * a.d, a.d * b.d)
RSub(a, b) == Rat(a.n * b.d - b.n * a.d, a.d * b.d)
RMul(a, b) == Rat(a.n * b.n, a.d * b.d)
\* a / b for b > 0
RDiv(a, b) == Rat(a.n * b.d, a.d * b.n)
RLess(a, b) == a.n * b.d < b.n * a.d
RLeq(a, b) == a.n * b.d <= b.n * a.d

\* Sum of f[x] over x in S.
RECURSIVE RSum(_, _)
RSum(S, f) ==
    IF S = {} THEN Zero
    ELSE LET x == CHOOSE y \in S : TRUE
         IN  RAdd(f[x], RSum(S \ {x}, f))

\* round(x, 3) for x >= 0, in thousandths; a tie goes to the even neighbour.
Round3(x) ==
    LET num == 1000 * x.n
        q == num \div x.d
        r == num % x.d
    IN  IF 2 * r < x.d THEN q
        ELSE IF 2 * r > x.d THEN q + 1
        ELSE IF q % 2 = 0 THEN q ELSE q + 1

-----------------------------------------------------------------------------
(* The data files (data/synthetic/*.csv) read by _build_dataset *)

\* courses.csv.  Ids "1","10","2".."6"; skills and terms are "|"-lists.
CoursesCsv == <<
    [course_id |-> <<49>>, category |-> "L", delivery_mode |-> "E",
     skills |-> <<97, 124, 98>>, prerequisites |-> <<>>,
     term_patterns |-> <<70, 124, 87>>],
    [course_id |-> <<49, 48>>, category |-> "L", delivery_mode |-> "E",
     skills |-> <<97, 124, 98>>, prerequisites |-> <<>>,
     term_patterns |-> <<>>],
    [course_id |-> <<50>>, category |-> "L", delivery_mode |-> "E",
     skills |-> <<97, 124, 98>>, prerequisites |-> <<>>,
     term_patterns |-> <<70, 124, 87>>],
    [course_id |-> <<51>>, category |-> "K", delivery_mode |-> "D",
     skills |-> <<97>>, prerequisites |-> <<32, 124, 32>>,
     term_patterns |-> <<102>>],
    [course_id |-> <<52>>, category |-> "L", delivery_mode |-> "D",
     skills |-> <<97, 124, 98>>, prerequisites |-> <<50, 124, 32, 49, 48>>,
     term_patterns |-> <<70, 124, 87>>],
    [course_id |-> <<53>>, category |-> "L", delivery_mode |-> "D",
     skills |-> <<>>, prerequisites |-> <<49, 48>>,
     term_patterns |-> <<70>>],
    [course_id |-> <<54>>, category |-> "L", delivery_mode |-> "E",
     skills |-> <<99>>, prerequisites |-> <<51>>,
     term_patterns |-> <<>>] >>

\* students.csv: interests "a|b", "a", " b | c".
StudentsCsv == <<
    [student_id |-> "s1", interests |-> <<97, 124, 98>>],
    [student_id |-> "s2", interests |-> <<97>>],
    [student_id |-> "s3", interests |-> <<32, 98, 32, 124, 32, 99>>] >>

\* student_preferences.csv
PreferencesCsv == <<
    [student_id |-> "s2", preference_type |-> "skills_to_build",
     preference_value |-> <<99>>],
    [student_id |-> "s3", preference_type |-> "hobby",
     preference_value |-> <<97>>] >>

\* The (student, course) pairs of enrollments.csv; the completion_status of
\* each row is part of the state.
Roster == <<
    <<"s1", <<49, 48>>>>, <<"s1", <<50>>>>,
    <<"s2", <<49, 48>>>>, <<"s2", <<51>>>>, <<"s2", <<53>>>>,
    <<"s2", <<54>>>>, <<"s3", <<50>>>>, <<"s3", <<51>>>> >>

Statuses == {"completed", "in_progress"}

EnrollmentRows(status) ==
    [i \in 1..Len(Roster) |->
        [student_id |-> Roster[i][1], course_id |-> Roster[i][2],
         completion_status |-> status[i]]]

EnrollmentFiles == {EnrollmentRows(st) : st \in [1..Len(Roster) -> Statuses]}

-----------------------------------------------------------------------------
(* data_loader.py *)

\* {row[key]: row for row in rows}: a later row replaces an earlier one.
IndexBy(rows, ids) ==
    [k \in ids |->
        rows[CHOOSE i \in 1..Len(rows) :
                /\ rows[i].course_id = k
                /\ \A j \in (i + 1)..Len(rows) : rows[j].course_id # k]]

_build_dataset(enrollments_rows) ==
    LET ids == {CoursesCsv[i].course_id : i \in 1..Len(CoursesCsv)}
        courses == IndexBy(CoursesCsv, ids)
        done == {i \in 1..Len(enrollments_rows) :
                    enrollments_rows[i].completion_status = "completed"}
        studs == {enrollments_rows[i].student_id : i \in done}
        students == {StudentsCsv[i].student_id : i \in 1..Len(StudentsCsv)}
        declared(s) ==
            UNION {_split_tags(StudentsCsv[i].interests) :
                     i \in {j \in 1..Len(StudentsCsv) :
                              StudentsCsv[j].student_id = s}}
        pref_tags(s) ==
            UNION {_split_tags(PreferencesCsv[i].preference_value) :
                     i \in {j \in 1..Len(PreferencesCsv) :
                              /\ PreferencesCsv[j].student_id = s
                              /\ PreferencesCsv[j].preference_type
                                   \in {"skills_to_build", "career_goal"}}}
    IN  [courses |-> courses,
         course_skill_tags |-> [c \in ids |-> _split_tags(courses[c].skills)],
         student_completed_courses |->
             [s \in studs |->
                 {enrollments_rows[i].course_id :
                     i \in {j \in done : enrollments_rows[j].student_id = s}}],
         collaborative_matrix |->
             [c \in {enrollments_rows[i].course_id : i \in done} |->
                 {enrollments_rows[i].student_id :
                     i \in {j \in done : enrollments_rows[j].course_id = c}}],
         student_interest_tags |->
             [s \in students |-> declared(s) \cup pref_tags(s)]]

\* dict.get(key, set())
GetSet(f, k) == IF k \in DOMAIN f THEN f[k] ELSE {}

\* dict.get(key, 0.0)
GetScore(f, k) == IF k \in DOMAIN f THEN f[k] ELSE Zero

-----------------------------------------------------------------------------
(* recommender.py: scoring *)

\* min(scores.values()) / max(scores.values()) of a non-empty map
MinScore(sc) ==
    sc[CHOOSE k \in DOMAIN sc : \A j \in DOMAIN sc : RLeq(sc[k], sc[j])]

MaxScore(sc) ==
    sc[CHOOSE k \in DOMAIN sc : \A j \in DOMAIN sc : RLeq(sc[j], sc[k])]

\* Faulty variants of _normalize: a flat map sent to 0.0; the minimum taken
\* as 0; the scale turned upside down.
NormalizeMut_FlatZero(sc) ==
    IF DOMAIN sc = {} THEN sc
    ELSE LET min_score == MinScore(sc)
             max_score == MaxScore(sc)
         IN  IF max_score = min_score THEN [k \in DOMAIN sc |-> Zero]
             ELSE LET spread == RSub(max_score, min_score)
                  IN  [k \in DOMAIN sc |->
                          RDiv(RSub(sc[k], min_score), spread)]

NormalizeMut_ZeroBase(sc) ==
    IF DOMAIN sc = {} THEN sc
    ELSE LET min_score == MinScore(sc)
             max_score == MaxScore(sc)
         IN  IF max_score = min_score THEN [k \in DOMAIN sc |-> One]
             ELSE [k \in DOMAIN sc |-> RDiv(sc[k], max_score)]

NormalizeMut_Inverted(sc) ==
    IF DOMAIN sc = {} THEN sc
    ELSE LET min_score == MinScore(sc)
             max_score == MaxScore(sc)
         IN  IF max_score = min_score THEN [k \in DOMAIN sc |-> One]
             ELSE LET spread == RSub(max_score, min_score)
                  IN  [k \in DOMAIN sc |->
                          RDiv(RSub(max_score, sc[k]), spread)]

_normalize(sc) ==
    IF DOMAIN sc = {} THEN sc
    ELSE LET min_score == MinScore(sc)
             max_score == MaxScore(sc)
         IN  IF max_score = min_score THEN [k \in DOMAIN sc |-> One]
             ELSE LET spread == RSub(max_score, min_score)
                  IN  [k \in DOMAIN sc |->
                          RDiv(RSub(sc[k], min_score), spread)]

\* Faulty variant: one completed prerequisite is enough.
PrereqMut_AnyMet(course_id, completed_courses, dataset) ==
    LET prereqs == dataset.courses[course_id].prerequisites
    IN  IF prereqs = <<>> THEN TRUE
        ELSE \/ _split_to_set(prereqs) = {}
             \/ _split_to_set(prereqs) \cap completed_courses # {}

_prerequisites_met(course_id, completed_courses, dataset) ==
    LET prereqs == dataset.courses[course_id].prerequisites
    IN  IF prereqs = <<>> THEN TRUE
        ELSE _split_to_set(prereqs) \subseteq completed_courses

\* The weights of _content_profile_from_courses and _score_content.
SkillWeight == Rat(1, 1)
CategoryWeight == Rat(6, 10)
TermWeight == Rat(2, 10)
DeliveryWeight == Rat(4, 10)
TermScoreFactor == Rat(1, 10)

\* A profile key: a plain tag, or one of the namespaced keys category::X,
\* term::x, delivery::Y.  The code keeps all four kinds in one Counter keyed
\* by str; they are kept apart here, which is the same as long as no tag
\* itself starts with "category::", "term::" or "delivery::" (none does in
\* the files below).
TagKey(t) == <<"tag", t>>
CategoryKey(c) == <<"category", c>>
TermKey(t) == <<"term", Lower(t)>>
DeliveryKey(m) == <<"delivery", m>>

\* What one completed course adds to the profile under key k.
CourseContribution(course_id, k, dataset) ==
    LET skills == GetSet(dataset.course_skill_tags, course_id)
        known == course_id \in DOMAIN dataset.courses
        course == dataset.courses[course_id]
        terms == IF known THEN _split_to_set(course.term_patterns) ELSE {}
        nterms == Cardinality({t \in terms : TermKey(t) = k})
    IN  RAdd(RAdd(IF k \in {TagKey(s) : s \in skills}
                  THEN SkillWeight ELSE Zero,
                  IF known /\ k = CategoryKey(course.category)
                  THEN CategoryWeight ELSE Zero),
             RAdd(RMul(Rat(nterms, 1), TermWeight),
                  IF known /\ k = DeliveryKey(course.delivery_mode)
                  THEN DeliveryWeight ELSE Zero))

CourseKeys(course_id, dataset) ==
    LET skills == GetSet(dataset.course_skill_tags, course_id)
        known == course_id \in DOMAIN dataset.courses
        course == dataset.courses[course_id]
    IN  {TagKey(s) : s \in skills}
        \cup (IF known
              THEN {CategoryKey(course.category),
                    DeliveryKey(course.delivery_mode)}
                   \cup {TermKey(t) : t \in _split_to_set(course.term_patterns)}
              ELSE {})

_content_profile_from_courses(course_ids, dataset) ==
    LET keys == UNION {CourseKeys(c, dataset) : c \in course_ids}
    IN  [k \in keys |->
            RSum(course_ids,
                 [c \in course_ids |-> CourseContribution(c, k, dataset)])]

\* interests is the tuple of the cleaned set, so each tag occurs once.
_content_profile_from_interests(interests) ==
    [k \in {TagKey(t) : t \in interests} |-> SkillWeight]

ScoreOne(course_id, profile, dataset) ==
    LET course == dataset.courses[course_id]
        skills == GetSet(dataset.course_skill_tags, course_id)
        terms == _split_to_set(course.term_patterns)
    IN  RAdd(RAdd(RSum(skills,
                       [s \in skills |-> GetScore(profile, TagKey(s))]),
                  GetScore(profile, CategoryKey(course.category))),
             RAdd(GetScore(profile, DeliveryKey(course.delivery_mode)),
                  RSum(terms,
                       [t \in terms |->
                           RMul(TermScoreFactor,
                                GetScore(profile, TermKey(t)))])))

_score_content(candidate_courses, profile, dataset) ==
    [c \in candidate_courses |-> ScoreOne(c, profile, dataset)]

\* Jaccard similarity of two completed sets, for a non-empty intersection.
Jaccard(a, b) == Rat(Cardinality(a \cap b), Cardinality(a \cup b))

_score_collaborative_history(student_id, candidate_courses, completed_courses, dataset) ==
    LET scc == dataset.student_completed_courses
        peers == {o \in DOMAIN scc :
                     /\ o # student_id
                     /\ completed_courses \cap scc[o] # {}}
        gives(o, c) ==
            /\ c \in scc[o]
            /\ c \notin completed_courses
            /\ c \in candidate_courses
        keys == {c \in candidate_courses : \E o \in peers : gives(o, c)}
    IN  [c \in keys |->
            LET from == {o \in peers : gives(o, c)}
            IN  RSum(from,
                     [o \in from |-> Jaccard(completed_courses, scc[o])])]

_score_collaborative_interests(candidate_courses, interest_tags, dataset) ==
    LET sit == dataset.student_interest_tags
        scc == dataset.student_completed_courses
        peers == IF interest_tags = {} THEN {}
                 ELSE {s \in DOMAIN sit : sit[s] \cap interest_tags # {}}
        gives(s, c) == c \in GetSet(scc, s) /\ c \in candidate_courses
        keys == {c \in candidate_courses : \E s \in peers : gives(s, c)}
    IN  [c \in keys |->
            LET from == {s \in peers : gives(s, c)}
            IN  RSum(from,
                     [s \in from |->
                         Rat(Cardinality(sit[s] \cap interest_tags),
                             Cardinality(interest_tags))])]

\* Faulty variant: completed courses are not filtered out.
CandidateMut_All(completed_courses, dataset) == DOMAIN dataset.courses

_candidate_courses(completed_courses, dataset) ==
    {c \in DOMAIN dataset.courses : c \notin completed_courses}

-----------------------------------------------------------------------------
(* recommender.py: ranking, payload and the two entry points *)

\* Faulty variant: ties broken by descending course id.
BeforeMut_TieDescending(a, b, combined) ==
    \/ RLess(combined[b], combined[a])
    \/ combined[a] = combined[b] /\ LexLess(b, a)

\* sorted(combined_scores.items(), key=lambda item: (-item[1], item[0]))
Before(a, b, combined) ==
    \/ RLess(combined[b], combined[a])
    \/ combined[a] = combined[b] /\ LexLess(a, b)

RECURSIVE RankedFrom(_, _)
RankedFrom(S, combined) ==
    IF S = {} THEN <<>>
    ELSE LET m == CHOOSE x \in S : \A y \in S \ {x} : Before(x, y, combined)
         IN  <<m>> \o RankedFrom(S \ {m}, combined)

Ranked(combined) == RankedFrom(DOMAIN combined, combined)

\* Faulty variant: one element too many.
SliceMut_OffByOne(seq, n) ==
    LET k == IF n >= 0 THEN n + 1 ELSE Len(seq) + n
        m == IF k < 0 THEN 0 ELSE IF k > Len(seq) THEN Len(seq) ELSE k
    IN  SubSeq(seq, 1, m)

\* seq[:n] with Python's meaning of a negative or oversized n
Slice(seq, n) ==
    LET k == IF n >= 0 THEN n ELSE Len(seq) + n
        m == IF k < 0 THEN 0 ELSE IF k > Len(seq) THEN Len(seq) ELSE k
    IN  SubSeq(seq, 1, m)

\* The fragments joined by " and ".
_build_explanation(course_id, content_score, collab_score, skills, dataset) ==
    LET highlighted == SubSeq(skills, 1, IF Len(skills) < 3 THEN Len(skills) ELSE 3)
        peers == Cardinality(GetSet(dataset.collaborative_matrix, course_id))
        matches == IF content_score # Zero
                   THEN <<[fragment |-> "matches your focus on",
                           skills |-> highlighted, peers |-> 0]>>
                   ELSE <<>>
        popular == IF collab_score # Zero
                   THEN <<[fragment |-> "popular with similar students",
                           skills |-> <<>>, peers |-> peers]>>
                   ELSE <<>>
        fragments == matches \o popular
    IN  IF fragments = <<>>
        THEN <<[fragment |-> "broadens your MAC coursework",
                skills |-> <<>>, peers |-> 0]>>
        ELSE fragments

_build_recommendation_payload(combined_scores, content_scores, collab_scores, dataset, top_n) ==
    LET ranked == Slice(Ranked(combined_scores), top_n)
    IN  [i \in 1..Len(ranked) |->
            LET course_id == ranked[i]
                course == dataset.courses[course_id]
                skills == SortedStrings(GetSet(dataset.course_skill_tags,
                                               course_id))
            IN  [course_id |-> course_id,
                 category |-> course.category,
                 delivery_mode |-> course.delivery_mode,
                 combined_score |-> Round3(combined_scores[course_id]),
                 content_score |-> Round3(GetScore(content_scores, course_id)),
                 collab_score |-> Round3(GetScore(collab_scores, course_id)),
                 skills |-> skills,
                 explanation |->
                     _build_explanation(course_id,
                                        GetScore(content_scores, course_id),
                                        GetScore(collab_scores, course_id),
                                        skills, dataset)]]

\* The weight pairs of the two modes.
HistoryContentWeight == Rat(6, 10)
HistoryCollabWeight == Rat(4, 10)
InterestContentWeight == Rat(7, 10)
InterestCollabWeight == Rat(3, 10)

Combine(candidate, content_scores, collab_scores, wc, wl) ==
    [c \in candidate |->
        RAdd(RMul(wc, GetScore(content_scores, c)),
             RMul(wl, GetScore(collab_scores, c)))]

\* The frame of a call: its locals and the list it returns.
Frame(candidate, content_raw, collab_raw, dataset, wc, wl, top_n) ==
    LET content_scores == _normalize(content_raw)
        collab_scores == _normalize(collab_raw)
        combined_scores == Combine(candidate, content_scores, collab_scores,
                                   wc, wl)
    IN  [candidate |-> candidate,
         content_raw |-> content_raw,
         collab_raw |-> collab_raw,
         content_scores |-> content_scores,
         collab_scores |-> collab_scores,
         combined_scores |-> combined_scores,
         result |-> _build_recommendation_payload(combined_scores,
                        content_scores, collab_scores, dataset, top_n)]

EmptyFrame ==
    [candidate |-> {}, content_raw |-> <<>>, collab_raw |-> <<>>,
     content_scores |-> <<>>, collab_scores |-> <<>>,
     combined_scores |-> <<>>, result |-> <<>>]

recommend_for_student(dataset, student_id, top_n) ==
    LET completed_courses == GetSet(dataset.student_completed_courses,
                                    student_id)
        candidate == {c \in _candidate_courses(completed_courses, dataset) :
                         _prerequisites_met(c, completed_courses, dataset)}
    IN  IF candidate = {} THEN EmptyFrame
        ELSE LET content_profile ==
                     _content_profile_from_courses(completed_courses, dataset)
             IN  Frame(candidate,
                       _score_content(candidate, content_profile, dataset),
                       _score_collaborative_history(student_id, candidate,
                                                    completed_courses, dataset),
                       dataset, HistoryContentWeight, HistoryCollabWeight,
                       top_n)

recommend_for_interests(dataset, interest_tags, top_n) ==
    LET cleaned_interests ==
            {interest_tags[i] :
                i \in {j \in 1..Len(interest_tags) : interest_tags[j] # <<>>}}
        candidate == _candidate_courses({}, dataset)
    IN  IF candidate = {} THEN EmptyFrame
        ELSE LET content_profile ==
                     _content_profile_from_interests(cleaned_interests)
             IN  Frame(candidate,
                       _score_content(candidate, content_profile, dataset),
                       _score_collaborative_interests(candidate,
                                                      cleaned_interests, dataset),
                       dataset, InterestContentWeight, InterestCollabWeight,
                       top_n)

-----------------------------------------------------------------------------
(* Bounds and inputs *)

\* The largest top_n requested (the catalogue has 7 courses).
MaxTopN == 8
\* Edits made to enrollments.csv while the process runs.
MaxEdits == 1
\* Threads calling get_dataset concurrently.
NumThreads == 2
\* Raw scores handed to _normalize directly: n / d with |n| <= MaxRaw,
\* 1 <= d <= MaxDen.
MaxRaw == 2
MaxDen == 2

TopNs == -1..MaxTopN

\* "zz" is a student id the dataset does not know.
StudentIds == {"s1", "s2", "s3", "zz"}

\* [], [""], [" "], ["a"], ["a","b"], ["c",""], ["b","b"], ["a","b","c"]
InterestInputs ==
    { <<>>, << <<>> >>, << <<32>> >>, << <<97>> >>, << <<97>>, <<98>> >>,
      << <<99>>, <<>> >>, << <<98>>, <<98>> >>,
      << <<97>>, <<98>>, <<99>> >> }

\* The requests repeated while the files change under the process.
SeqStudentIds == {"s1", "s3"}
SeqInterestInputs == { << <<97>>, <<98>> >> }
SeqTopNs == {2}

Threads == 1..NumThreads

NormKeys == {<<49>>, <<50>>, <<51>>}
RawValues == {Rat(n, d) : n \in (0 - MaxRaw)..MaxRaw, d \in 1..MaxDen}
ScoreMaps == UNION {[K -> RawValues] : K \in SUBSET NormKeys}

AllCompleted == EnrollmentRows([i \in 1..Len(Roster) |-> "completed"])

NoCall ==
    [mode |-> "none", student_id |-> "", interest_tags |-> <<>>, top_n |-> 0]

-----------------------------------------------------------------------------
(* data_loader.get_dataset: functools.lru_cache(maxsize=1) around            *)
(* _build_dataset                                                          *)

\* Faulty variant: the decorator is missing, every call builds.
GetDatasetMut_NoCache(cached, files) == _build_dataset(files)

\* A sequential call: a hit returns the cached snapshot, a miss builds one.
get_dataset(cached, files) ==
    IF cached # <<>> THEN cached[1] ELSE _build_dataset(files)

-----------------------------------------------------------------------------
(* The sequential caller *)

Quiet ==
    UNCHANGED <<enrollments, edits, tpc, tsnap, scores, normalized>>

CallStudent(student_id, top_n) ==
    /\ pc = "idle"
    /\ LET dataset == get_dataset(cache, enrollments)
       IN  /\ cache' = <<dataset>>
           /\ ret' = recommend_for_student(dataset, student_id, top_n)
    /\ builds' = IF cache = <<>> THEN builds + 1 ELSE builds
    /\ call' = [mode |-> "student", student_id |-> student_id,
                interest_tags |-> <<>>, top_n |-> top_n]
    /\ pc' = "returned"
    /\ UNCHANGED pinned
    /\ Quiet

CallInterests(interest_tags, top_n) ==
    /\ pc = "idle"
    /\ LET dataset == get_dataset(cache, enrollments)
       IN  /\ cache' = <<dataset>>
           /\ ret' = recommend_for_interests(dataset, interest_tags, top_n)
    /\ builds' = IF cache = <<>> THEN builds + 1 ELSE builds
    /\ call' = [mode |-> "interests", student_id |-> "",
                interest_tags |-> interest_tags, top_n |-> top_n]
    /\ pc' = "returned"
    /\ UNCHANGED pinned
    /\ Quiet

\* The caller takes the list and is ready for its next request.
Resume ==
    /\ pc = "returned"
    /\ pc' = "idle"
    /\ call' = NoCall
    /\ ret' = EmptyFrame
    /\ UNCHANGED <<cache, builds, pinned>>
    /\ Quiet

\* The same, keeping the request and its list for a later comparison.
ResumeRemember ==
    /\ pc = "returned"
    /\ pc' = "idle"
    /\ pinned' = <<[call |-> call, result |-> ret.result]>>
    /\ call' = NoCall
    /\ ret' = EmptyFrame
    /\ UNCHANGED <<cache, builds>>
    /\ Quiet

\* The environment rewrites one row of enrollments.csv.
EditEnrollments(i) ==
    /\ edits < MaxEdits
    /\ edits' = edits + 1
    /\ enrollments' =
          [enrollments EXCEPT ![i].completion_status =
              IF @ = "completed" THEN "in_progress" ELSE "completed"]
    /\ UNCHANGED <<cache, builds, pc, call, ret, pinned, tpc, tsnap,
                   scores, normalized>>

-----------------------------------------------------------------------------
(* Threads inside get_dataset.  lru_cache looks the key up, calls the       *)
(* wrapped function without holding a lock, then stores the result unless   *)
(* the key has been stored meanwhile; the caller gets the result of its own *)
(* call.                                                                    *)

ThreadQuiet == UNCHANGED <<pc, call, ret, pinned, scores, normalized>>

ThreadLookup(t) ==
    /\ tpc[t] = "start"
    /\ IF cache # <<>>
       THEN /\ tsnap' = [tsnap EXCEPT ![t] = cache]
            /\ tpc' = [tpc EXCEPT ![t] = "done"]
            /\ UNCHANGED builds
       ELSE /\ tpc' = [tpc EXCEPT ![t] = "building"]
            /\ builds' = builds + 1
            /\ UNCHANGED tsnap
    /\ UNCHANGED <<enrollments, cache, edits>>
    /\ ThreadQuiet

ThreadBuild(t) ==
    /\ tpc[t] = "building"
    /\ tsnap' = [tsnap EXCEPT ![t] = <<_build_dataset(enrollments)>>]
    /\ tpc' = [tpc EXCEPT ![t] = "store"]
    /\ UNCHANGED <<enrollments, cache, builds, edits>>
    /\ ThreadQuiet

ThreadStore(t) ==
    /\ tpc[t] = "store"
    /\ cache' = IF cache = <<>> THEN tsnap[t] ELSE cache
    /\ tpc' = [tpc EXCEPT ![t] = "done"]
    /\ UNCHANGED <<enrollments, builds, edits, tsnap>>
    /\ ThreadQuiet

-----------------------------------------------------------------------------
(* A direct call of _normalize *)

Normalize ==
    /\ normalized = <<>>
    /\ normalized' = <<_normalize(scores)>>
    /\ UNCHANGED <<enrollments, cache, builds, pc, call, ret, pinned, edits,
                   tpc, tsnap, scores>>

-----------------------------------------------------------------------------
(* Specifications *)

Base ==
    /\ cache = <<>>
    /\ builds = 0
    /\ pc = "idle"
    /\ call = NoCall
    /\ ret = EmptyFrame
    /\ pinned = <<>>
    /\ edits = 0
    /\ tsnap = [t \in Threads |-> <<>>]
    /\ normalized = <<>>

\* One caller, any enrollments.csv, the files never change.
Init ==
    /\ enrollments \in EnrollmentFiles
    /\ tpc = [t \in Threads |-> "off"]
    /\ scores = <<>>
    /\ Base

Next ==
    \/ \E student_id \in StudentIds, top_n \in TopNs :
          CallStudent(student_id, top_n)
    \/ \E interest_tags \in InterestInputs, top_n \in TopNs :
          CallInterests(interest_tags, top_n)
    \/ Resume

Spec == Init /\ [][Next]_vars

\* One caller repeating requests while enrollments.csv is edited.
InitSeq ==
    /\ enrollments = AllCompleted
    /\ tpc = [t \in Threads |-> "off"]
    /\ scores = <<>>
    /\ Base

NextSeq ==
    \/ \E student_id \in SeqStudentIds, top_n \in SeqTopNs :
          CallStudent(student_id, top_n)
    \/ \E interest_tags \in SeqInterestInputs, top_n \in SeqTopNs :
          CallInterests(interest_tags, top_n)
    \/ Resume
    \/ ResumeRemember
    \/ \E i \in 1..Len(Roster) : EditEnrollments(i)

SpecSeq == InitSeq /\ [][NextSeq]_vars

\* Several threads entering get_dataset before anything is cached.
InitConcurrent ==
    /\ enrollments = AllCompleted
    /\ tpc = [t \in Threads |-> "start"]
    /\ scores = <<>>
    /\ Base

NextConcurrent ==
    \/ \E t \in Threads : ThreadLookup(t)
    \/ \E t \in Threads : ThreadBuild(t)
    \/ \E t \in Threads : ThreadStore(t)
    \/ \E i \in 1..Len(Roster) : EditEnrollments(i)

SpecConcurrent == InitConcurrent /\ [][NextConcurrent]_vars

\* _normalize applied to any small score map.
InitNormalize ==
    /\ enrollments = AllCompleted
    /\ tpc = [t \in Threads |-> "off"]
    /\ scores \in ScoreMaps
    /\ Base

NextNormalize == Normalize

SpecNormalize == InitNormalize /\ [][NextNormalize]_vars

-----------------------------------------------------------------------------
(* Vocabulary of the properties, read off the files rather than off the    *)
(* snapshot                                                                *)

Returned == pc = "returned"

CatalogIds == {CoursesCsv[i].course_id : i \in 1..Len(CoursesCsv)}

CatalogRow(c) ==
    CoursesCsv[CHOOSE i \in 1..Len(CoursesCsv) : CoursesCsv[i].course_id = c]

\* The courses enrollments.csv records as completed by a student.
CompletedOnFile(student_id) ==
    {enrollments[i].course_id :
        i \in {j \in 1..Len(enrollments) :
                 /\ enrollments[j].student_id = student_id
                 /\ enrollments[j].completion_status = "completed"}}

Requester == CompletedOnFile(call.student_id)

PrereqSet(c) == _split_to_set(CatalogRow(c).prerequisites)

ResultIds == {ret.result[i].course_id : i \in 1..Len(ret.result)}

\* Position of a course in the returned list, 0 when absent.
Pos(c) ==
    IF c \in ResultIds
    THEN CHOOSE i \in 1..Len(ret.result) : ret.result[i].course_id = c
    ELSE 0

\* The candidates the specification prescribes for the request.
ExpectedCandidates ==
    IF call.mode = "student"
    THEN {c \in CatalogIds :
             c \notin Requester /\ PrereqSet(c) \subseteq Requester}
    ELSE CatalogIds

Min2(a, b) == IF a < b THEN a ELSE b

-----------------------------------------------------------------------------
(* C1 *)

\* C1: no record returned by recommend_for_student carries a course the
\* requester has completed.
C1_NoCompletedCourse ==
    (Returned /\ call.mode = "student") =>
        \A i \in 1..Len(ret.result) :
            ret.result[i].course_id \notin Requester

C1_Witness ==
    /\ Returned
    /\ call.mode = "student"
    /\ Cardinality(Requester) = 2
    /\ call.top_n = MaxTopN
    /\ Len(ret.result) >= 3

-----------------------------------------------------------------------------
(* C2 *)

\* C2: every record returned by recommend_for_student has a course whose
\* prerequisite set is contained in the requester's completed set, and a
\* course without prerequisites that the requester has not completed is
\* returned whenever top_n leaves room for every course.
C2_PrerequisitesMet ==
    (Returned /\ call.mode = "student") =>
        /\ \A i \in 1..Len(ret.result) :
              PrereqSet(ret.result[i].course_id) \subseteq Requester
        /\ call.top_n >= Cardinality(CatalogIds) =>
              \A c \in CatalogIds :
                  (PrereqSet(c) = {} /\ c \notin Requester) => c \in ResultIds

C2_Witness ==
    /\ Returned
    /\ call.mode = "student"
    /\ call.top_n = MaxTopN
    /\ \E i \in 1..Len(ret.result) :
          Cardinality(PrereqSet(ret.result[i].course_id)) = 2
    /\ \E c \in CatalogIds \ Requester : ~(PrereqSet(c) \subseteq Requester)
    /\ \E c \in ResultIds :
          CatalogRow(c).prerequisites # <<>> /\ PrereqSet(c) = {}

-----------------------------------------------------------------------------
(* C3 *)

\* C3 as stated: the list is sorted by the records' combined_score (the
\* value rounded to 3 decimals) descending, and records with equal
\* combined_score are in ascending course_id order.
C3_SortedByRecordScore ==
    Returned =>
        \A i, j \in 1..Len(ret.result) :
            i < j =>
                \/ ret.result[i].combined_score > ret.result[j].combined_score
                \/ /\ ret.result[i].combined_score
                        = ret.result[j].combined_score
                   /\ LexLess(ret.result[i].course_id, ret.result[j].course_id)

\* C3 amended: the list is sorted by the unrounded combined score descending,
\* candidates with equal unrounded score are in ascending course_id order,
\* and the records' rounded combined_score never increases along the list.
C3_SortedByUnroundedScore ==
    Returned =>
        \A i, j \in 1..Len(ret.result) :
            i < j =>
                LET a == ret.result[i].course_id
                    b == ret.result[j].course_id
                    sa == ret.combined_scores[a]
                    sb == ret.combined_scores[b]
                IN  /\ \/ RLess(sb, sa)
                       \/ sa = sb /\ LexLess(a, b)
                    /\ ret.result[i].combined_score = Round3(sa)
                    /\ ret.result[i].combined_score
                          >= ret.result[j].combined_score

\* Two neighbours with different scores that round to the same value, the
\* larger course_id first; and two with the same score.
C3_Witness ==
    /\ Returned
    /\ \E i \in 1..(Len(ret.result) - 1) :
          /\ ret.result[i].combined_score = ret.result[i + 1].combined_score
          /\ LexLess(ret.result[i + 1].course_id, ret.result[i].course_id)
          /\ RLess(ret.combined_scores[ret.result[i + 1].course_id],
                   ret.combined_scores[ret.result[i].course_id])

-----------------------------------------------------------------------------
(* C4 *)

Blank(tag) == \A i \in 1..Len(tag) : tag[i] \in Whitespace

\* C4: recommend_for_interests with no tag, or only empty or blank tags,
\* returns records whose collab_score and content_score are all 0.
C4_BlankInterestsScoreZero ==
    (/\ Returned
     /\ call.mode = "interests"
     /\ \A k \in 1..Len(call.interest_tags) : Blank(call.interest_tags[k]))
    => \A i \in 1..Len(ret.result) :
          /\ ret.result[i].collab_score = 0
          /\ ret.result[i].content_score = 0

-----------------------------------------------------------------------------
(* C5 *)

\* C5: for top_n >= 0 the list has min(top_n, number of candidates) records,
\* each a distinct candidate; with top_n at least the number of candidates
\* it holds every candidate.
C5_LengthIsMin ==
    (Returned /\ call.top_n >= 0) =>
        /\ Len(ret.result)
              = Min2(call.top_n, Cardinality(ExpectedCandidates))
        /\ Cardinality(ResultIds) = Len(ret.result)
        /\ ResultIds \subseteq ExpectedCandidates
        /\ call.top_n >= Cardinality(ExpectedCandidates) =>
              ResultIds = ExpectedCandidates

C5_Witness ==
    /\ Returned
    /\ call.mode = "student"
    /\ call.top_n > Cardinality(ExpectedCandidates)
    /\ Cardinality(ExpectedCandidates) >= 2
    /\ Cardinality(ExpectedCandidates) < Cardinality(CatalogIds)
    /\ Len(ret.result) = Cardinality(ExpectedCandidates)

-----------------------------------------------------------------------------
(* C6 *)

\* C6: _normalize keeps the key set; every value lies in [0, 1]; with
\* distinct extremes a value is (value - min) / (max - min); a non-empty map
\* of equal values maps to 1.0 everywhere; the empty map maps to itself.
C6_NormalizeRescales ==
    normalized # <<>> =>
        LET out == normalized[1]
            keys == DOMAIN scores
            flat == \A a, b \in keys : scores[a] = scores[b]
        IN  /\ DOMAIN out = keys
            /\ \A k \in keys :
                  /\ RLeq(Zero, out[k]) /\ RLeq(out[k], One)
                  /\ flat => out[k] = One
                  /\ ~flat =>
                        \E lo, hi \in keys :
                            /\ \A j \in keys :
                                  /\ RLeq(scores[lo], scores[j])
                                  /\ RLeq(scores[j], scores[hi])
                            /\ RMul(out[k], RSub(scores[hi], scores[lo]))
                                  = RSub(scores[k], scores[lo])

\* A map with a value strictly between the extremes, and one negative.
C6_Witness ==
    /\ normalized # <<>>
    /\ \E a, b, c \in DOMAIN scores :
          /\ RLess(scores[a], scores[b]) /\ RLess(scores[b], scores[c])
          /\ RLess(scores[a], Zero)
          /\ RLess(Zero, normalized[1][b]) /\ RLess(normalized[1][b], One)

-----------------------------------------------------------------------------
(* C7 *)

\* C7: a request repeated later, whatever was requested or changed on disk
\* in between, returns the list it returned before.
C7_RepeatReturnsSameList ==
    (Returned /\ pinned # <<>> /\ pinned[1].call = call) =>
        ret.result = pinned[1].result

\* The repeated request returns after enrollments.csv has been rewritten in
\* a way that a fresh build would show.
C7_Witness ==
    /\ Returned
    /\ pinned # <<>>
    /\ pinned[1].call = call
    /\ call.mode = "student"
    /\ ret.result # <<>>
    /\ edits > 0
    /\ recommend_for_student(_build_dataset(enrollments), call.student_id,
                             call.top_n).result # ret.result

-----------------------------------------------------------------------------
(* C8 *)

\* C8: with several threads in get_dataset before anything is cached,
\* _build_dataset runs once and every caller gets the same snapshot.
C8_BuiltOnceSameSnapshot ==
    /\ builds <= 1
    /\ \A t, u \in Threads :
          (tpc[t] = "done" /\ tpc[u] = "done") => tsnap[t] = tsnap[u]

-----------------------------------------------------------------------------
(* C9 *)

CompletedRows == {CatalogRow(c) : c \in Requester \cap CatalogIds}

\* The skills of the requester's completed courses.
CompletedSkills == UNION {_split_tags(r.skills) : r \in CompletedRows}

LowerTerms(row) == {Lower(t) : t \in _split_to_set(row.term_patterns)}

SkillOverlap(c) == _split_tags(CatalogRow(c).skills) \cap CompletedSkills # {}

\* No skill, category, delivery mode or term in common with the completed
\* courses.
Unrelated(c) ==
    /\ ~SkillOverlap(c)
    /\ \A r \in CompletedRows :
          /\ r.category # CatalogRow(c).category
          /\ r.delivery_mode # CatalogRow(c).delivery_mode
          /\ LowerTerms(r) \cap LowerTerms(CatalogRow(c)) = {}

\* x is ranked above y: wherever y is returned, x is returned before it.
RankedAbove(x, y) == Pos(y) # 0 => (Pos(x) # 0 /\ Pos(x) < Pos(y))

NoCollaborativeSignal ==
    /\ Returned
    /\ call.mode = "student"
    /\ DOMAIN ret.collab_raw = {}

\* C9 as stated: without collaborative contributions, a candidate with
\* skill overlap is ranked above every candidate without skill overlap.
C9_SkillOverlapRankedFirst ==
    NoCollaborativeSignal =>
        \A x, y \in ExpectedCandidates :
            (SkillOverlap(x) /\ ~SkillOverlap(y)) => RankedAbove(x, y)

\* C9 amended: ... is ranked above every candidate that has no skill overlap
\* and shares no category, delivery mode or term pattern with the completed
\* courses.
C9_SkillOverlapAboveUnrelated ==
    NoCollaborativeSignal =>
        \A x, y \in ExpectedCandidates :
            (SkillOverlap(x) /\ Unrelated(y)) => RankedAbove(x, y)

C9_Witness ==
    /\ NoCollaborativeSignal
    /\ \E x, y \in ExpectedCandidates :
          /\ SkillOverlap(x) /\ Unrelated(y)
          /\ Pos(x) # 0
          /\ Pos(y) # 0

-----------------------------------------------------------------------------
(* C10 *)

CleanedTags ==
    {call.interest_tags[i] :
        i \in {j \in 1..Len(call.interest_tags) : call.interest_tags[j] # <<>>}}

\* Some peer contributes to candidate c.
Contributed(c) ==
    IF call.mode = "student"
    THEN \E i \in 1..Len(enrollments) :
            LET o == enrollments[i].student_id
            IN  /\ o # call.student_id
                /\ CompletedOnFile(o) \cap Requester # {}
                /\ c \in CompletedOnFile(o)
    ELSE \E s \in DOMAIN cache[1].student_interest_tags :
            /\ cache[1].student_interest_tags[s] \cap CleanedTags # {}
            /\ c \in CompletedOnFile(s)

HasPopularFragment(rec) ==
    \E k \in 1..Len(rec.explanation) :
        rec.explanation[k].fragment = "popular with similar students"

ContentShare ==
    IF call.mode = "student" THEN HistoryContentWeight
    ELSE InterestContentWeight

\* C10: the collaborative minimum is taken over the contributing candidates
\* only.  A candidate's normalized collab score is positive iff it received
\* a contribution and either all contributing candidates have the same raw
\* sum or its raw sum exceeds the smallest; with two distinct raw sums the
\* candidate with the smallest gets collab score 0, adds nothing to the
\* combined score and has no "popular with" fragment.
C10_MinOverContributors ==
    Returned =>
        LET raw == ret.collab_raw
            contributing == {c \in ExpectedCandidates : Contributed(c)}
            flat == \A a, b \in contributing : raw[a] = raw[b]
        IN  /\ DOMAIN raw = contributing
            /\ \A c \in ExpectedCandidates :
                  RLess(Zero, GetScore(ret.collab_scores, c))
                  <=> /\ c \in contributing
                      /\ flat \/ \E d \in contributing : RLess(raw[d], raw[c])
            /\ ~flat =>
                  \A i \in 1..Len(ret.result) :
                      LET c == ret.result[i].course_id
                      IN  (/\ c \in contributing
                           /\ \A d \in contributing : RLeq(raw[c], raw[d]))
                          => /\ ret.result[i].collab_score = 0
                             /\ ret.combined_scores[c]
                                   = RMul(ContentShare,
                                          GetScore(ret.content_scores, c))
                             /\ ~HasPopularFragment(ret.result[i])

\* Contributing candidates with distinct raw sums, the smallest returned.
C10_Witness ==
    /\ Returned
    /\ \E i \in 1..Len(ret.result) :
          LET c == ret.result[i].course_id
          IN  /\ c \in DOMAIN ret.collab_raw
              /\ \E d \in DOMAIN ret.collab_raw :
                    RLess(ret.collab_raw[c], ret.collab_raw[d])
              /\ \A d \in DOMAIN ret.collab_raw :
                    RLeq(ret.collab_raw[c], ret.collab_raw[d])
              /\ ret.result[i].collab_score = 0
              /\ ret.result[i].content_score > 0

=============================================================================
